---- MODULE Spec2Model ----
\* Model of the Qwen2-VL GPTQ adapter (gptqmodel/models/definitions/qwen2_vl.py)
\* and of the OLoRA/AdaLoRA fine-tuning script (tests/test_olora_finetuning_xpu.py).
\*
\* Four specifications share the variables; each one runs one part of the
\* program and leaves the other parts in their idle state:
\*   SpecTrain   train(): the sequence of library calls
\*   SpecTok     train.tokenize, with the lists of the result held in a heap
\*   SpecPrep    Qwen2VLGPTQ.prepare_dataset / process_vision_info
\*   SpecLayers  the walk over layer_modules of every decoder layer
EXTENDS Integers, Sequences, FiniteSets, TLC

VARIABLES
    \* ---- train() ----
    pc,              \* position in train()
    device_map_arg,  \* the device_map argument as the caller passed it
    quantize,        \* the quantize argument
    seed,            \* the seed argument; NoSeed models None
    torch_dtype,     \* the torch_dtype argument (a string)
    environ,         \* os.environ restricted to WORLD_SIZE and PMI_SIZE
    process_index,   \* Accelerator().process_index of this process
    world_size,      \* local world_size
    device_map,      \* local device_map after lines 54-57
    model_kwargs,    \* keyword arguments handed to from_pretrained
    calls,           \* library calls made so far, in order
    dev_after_load,  \* model.device.type seen by the assert of line 66
    dev_after_peft,  \* model.device.type seen by the assert of line 109
    error,           \* the exception that ended train(), or NoError
    \* ---- train.tokenize ----
    tpc, prompt, cutoff_len, add_eos_token, heap, result, tok_out, labels_at_return,
    \* ---- prepare_dataset ----
    ppc, calibration_dataset, batch_size, batches, bi, calib_data, perror, fetch_log,
    prep_result,
    \* ---- layer walk ----
    lpc, num_layers, li, gi, mi, qlog

varsTrain == <<pc, device_map_arg, quantize, seed, torch_dtype, environ, process_index,
               world_size, device_map, model_kwargs, calls, dev_after_load,
               dev_after_peft, error>>
varsTok == <<tpc, prompt, cutoff_len, add_eos_token, heap, result, tok_out, labels_at_return>>
varsPrep == <<ppc, calibration_dataset, batch_size, batches, bi, calib_data, perror, fetch_log,
              prep_result>>
varsLayers == <<lpc, num_layers, li, gi, mi, qlog>>
vars == <<varsTrain, varsTok, varsPrep, varsLayers>>

\* ------------------------------------------------------------------
\* Bounds of the model
\* ------------------------------------------------------------------
MaxProcessIndex == 1
MaxCutoff == 3
MaxPromptLen == 3
MaxSamples == 3
MaxBatch == 2
MaxLayers == 4

\* ------------------------------------------------------------------
\* Small helpers
\* ------------------------------------------------------------------
Range(s) == {s[i] : i \in 1..Len(s)}
Last(s) == s[Len(s)]
Min(a, b) == IF a < b THEN a ELSE b
SeqsUpTo(S, n) == UNION {[1..k -> S] : k \in 0..n}
IsPrefix(p, s) == Len(p) <= Len(s) /\ SubSeq(s, 1, Len(p)) = p
Count(s, x) == Cardinality({i \in 1..Len(s) : s[i] = x})

\* ==================================================================
\* train()  (tests/test_olora_finetuning_xpu.py)
\* ==================================================================
NoSeed == "None"
NoError == "none"
NoDevice == "unset"
Unset == "<unset>"

DeviceMapArgs == {"auto", "cpu", "cuda"}
EnvValues == {Unset, "0", "1", "2", "abc"}
DeviceTypes == {"xpu", "cpu", "cuda"}
TorchDtypes == {"float16", "bfloat16"}
Seeds == {NoSeed, "1234"}

\* A device map is either a string or a dict {"": index}.
DevStr(s) == [kind |-> "str", name |-> s, index |-> -1]
DevDict(i) == [kind |-> "dict", name |-> "", index |-> i]

\* int(s) for the strings of EnvValues; "abc" is no integer literal.
IsIntLiteral(s) == s \in {"0", "1", "2"}
IntOf(s) == CASE s = "0" -> 0 [] s = "1" -> 1 [] s = "2" -> 2

\* os.environ.get(name, 0): the string when set, the integer 0 otherwise;
\* int() of it raises ValueError on a string that is no integer literal.
EnvRaises(v) == v # Unset /\ ~IsIntLiteral(v)
EnvInt(v) == IF v = Unset THEN 0 ELSE IntOf(v)

\* Line 53: int(WORLD_SIZE) or int(PMI_SIZE); the right operand is evaluated
\* only when the left one is 0.
WorldSizeRaises(env) ==
    \/ EnvRaises(env.WORLD_SIZE)
    \/ (EnvInt(env.WORLD_SIZE) = 0 /\ EnvRaises(env.PMI_SIZE))
WorldSize(env) ==
    IF EnvInt(env.WORLD_SIZE) # 0 THEN EnvInt(env.WORLD_SIZE) ELSE EnvInt(env.PMI_SIZE)

\* Lines 54-57: the local device_map after the DDP branch.
LocalDeviceMap(ws, arg, idx) ==
    IF ws > 1 /\ arg # "cpu" THEN DevDict(idx) ELSE DevStr(arg)

\* getattr(torch, torch_dtype)
TorchAttr(s) == CASE s = "float16" -> "torch.float16" [] s = "bfloat16" -> "torch.bfloat16"

GPTQConfig4 == [bits |-> 4, dataset |-> <<"allenai/c4">>]

\* Lines 61-63: the keyword arguments of from_pretrained.
ModelKwargs_always_quantized(dtype, q) ==
    [torch_dtype |-> TorchAttr(dtype), device_map |-> DevStr("xpu"),
     quantization_config |-> GPTQConfig4]
ModelKwargs(dtype, q) ==
    IF q
    THEN [torch_dtype |-> TorchAttr(dtype), device_map |-> DevStr("xpu"),
          quantization_config |-> GPTQConfig4]
    ELSE [torch_dtype |-> TorchAttr(dtype), device_map |-> DevStr("xpu")]

\* Lines 66 and 109: assert model.device.type == "xpu"
AssertXpu_removed(dev) == TRUE
AssertXpu(dev) == dev = "xpu"

InitTrainPart ==
    /\ pc = "start"
    /\ device_map_arg \in DeviceMapArgs
    /\ quantize \in BOOLEAN
    /\ seed \in Seeds
    /\ torch_dtype \in TorchDtypes
    /\ environ \in [WORLD_SIZE : EnvValues, PMI_SIZE : EnvValues]
    /\ process_index \in 0..MaxProcessIndex
    /\ world_size = 0
    /\ device_map = DevStr(device_map_arg)
    /\ model_kwargs = <<>>
    /\ calls = <<>>
    /\ dev_after_load = NoDevice
    /\ dev_after_peft = NoDevice
    /\ error = NoError

IdleTrain ==
    /\ pc = "idle"
    /\ device_map_arg = "auto"
    /\ quantize = FALSE
    /\ seed = NoSeed
    /\ torch_dtype = "float16"
    /\ environ = [WORLD_SIZE |-> Unset, PMI_SIZE |-> Unset]
    /\ process_index = 0
    /\ world_size = 0
    /\ device_map = DevStr("auto")
    /\ model_kwargs = <<>>
    /\ calls = <<>>
    /\ dev_after_load = NoDevice
    /\ dev_after_peft = NoDevice
    /\ error = NoError

Raise(e) == pc' = "raised" /\ error' = e

\* Lines 52-57.
SetDeviceMap ==
    /\ pc = "start"
    /\ IF WorldSizeRaises(environ)
       THEN /\ Raise("ValueError")
            /\ UNCHANGED <<world_size, device_map>>
       ELSE /\ world_size' = WorldSize(environ)
            /\ device_map' = LocalDeviceMap(WorldSize(environ), device_map_arg, process_index)
            /\ pc' = "seed"
            /\ UNCHANGED error
    /\ UNCHANGED <<device_map_arg, quantize, seed, torch_dtype, environ, process_index,
                   model_kwargs, calls, dev_after_load, dev_after_peft>>

\* Lines 58-60.
SetSeed ==
    /\ pc = "seed"
    /\ calls' = IF seed # NoSeed THEN Append(calls, "set_seed") ELSE calls
    /\ pc' = "load"
    /\ UNCHANGED <<device_map_arg, quantize, seed, torch_dtype, environ, process_index,
                   world_size, device_map, model_kwargs, dev_after_load, dev_after_peft,
                   error>>

\* Lines 61-66: build the keyword arguments, load the model, check its device.
LoadModel ==
    /\ pc = "load"
    /\ model_kwargs' = ModelKwargs(torch_dtype, quantize)
    /\ calls' = Append(calls, "from_pretrained")
    /\ \E ok \in BOOLEAN, dev \in DeviceTypes :
          IF ~ok
          THEN /\ Raise("LibraryError")
               /\ UNCHANGED dev_after_load
          ELSE /\ dev_after_load' = dev
               /\ IF AssertXpu(dev)
                  THEN pc' = "tokenizer" /\ UNCHANGED error
                  ELSE Raise("AssertionError")
    /\ UNCHANGED <<device_map_arg, quantize, seed, torch_dtype, environ, process_index,
                   world_size, device_map, dev_after_peft>>

\* A library call that either returns or raises, with nothing else to record.
LibraryStep(at, name, next) ==
    /\ pc = at
    /\ calls' = Append(calls, name)
    /\ \E ok \in BOOLEAN :
          IF ok THEN pc' = next /\ UNCHANGED error ELSE Raise("LibraryError")
    /\ UNCHANGED <<device_map_arg, quantize, seed, torch_dtype, environ, process_index,
                   world_size, device_map, model_kwargs, dev_after_load, dev_after_peft>>

\* Lines 68-71.
TokenizerSetup == LibraryStep("tokenizer", "AutoTokenizer", "peft")

\* Lines 98-109: AdaLoraConfig, get_peft_model, check the device again.
PeftWrap ==
    /\ pc = "peft"
    /\ calls' = Append(calls, "get_peft_model")
    /\ \E ok \in BOOLEAN, dev \in DeviceTypes :
          IF ~ok
          THEN /\ Raise("LibraryError")
               /\ UNCHANGED dev_after_peft
          ELSE /\ dev_after_peft' = dev
               /\ IF AssertXpu(dev)
                  THEN pc' = "data" /\ UNCHANGED error
                  ELSE Raise("AssertionError")
    /\ UNCHANGED <<device_map_arg, quantize, seed, torch_dtype, environ, process_index,
                   world_size, device_map, model_kwargs, dev_after_load>>

\* Lines 111-115.
LoadData == LibraryStep("data", "load_dataset", "trainer")

\* Lines 117-140.
MakeTrainer == LibraryStep("trainer", "Trainer", "train")

\* Line 142.
TrainerTrain == LibraryStep("train", "trainer.train", "save")

\* Line 143.
SavePretrained_before_train ==
    /\ pc \in {"train", "save"}
    /\ calls' = Append(calls, "save_pretrained")
    /\ pc' = "done"
    /\ UNCHANGED <<device_map_arg, quantize, seed, torch_dtype, environ, process_index,
                   world_size, device_map, model_kwargs, dev_after_load, dev_after_peft,
                   error>>
SavePretrained ==
    /\ pc = "save"
    /\ calls' = Append(calls, "save_pretrained")
    /\ \E ok \in BOOLEAN :
          IF ok THEN pc' = "done" /\ UNCHANGED error ELSE Raise("LibraryError")
    /\ UNCHANGED <<device_map_arg, quantize, seed, torch_dtype, environ, process_index,
                   world_size, device_map, model_kwargs, dev_after_load, dev_after_peft>>

NextTrain ==
    \/ SetDeviceMap /\ UNCHANGED <<varsTok, varsPrep, varsLayers>>
    \/ SetSeed /\ UNCHANGED <<varsTok, varsPrep, varsLayers>>
    \/ LoadModel /\ UNCHANGED <<varsTok, varsPrep, varsLayers>>
    \/ TokenizerSetup /\ UNCHANGED <<varsTok, varsPrep, varsLayers>>
    \/ PeftWrap /\ UNCHANGED <<varsTok, varsPrep, varsLayers>>
    \/ LoadData /\ UNCHANGED <<varsTok, varsPrep, varsLayers>>
    \/ MakeTrainer /\ UNCHANGED <<varsTok, varsPrep, varsLayers>>
    \/ TrainerTrain /\ UNCHANGED <<varsTok, varsPrep, varsLayers>>
    \/ SavePretrained /\ UNCHANGED <<varsTok, varsPrep, varsLayers>>

\* ==================================================================
\* train.tokenize  (tests/test_olora_finetuning_xpu.py, lines 73-91)
\* ==================================================================
\* The prompt is a sequence of pieces; the tokenizer maps each piece to its id.
Pieces == {"a", "b", "</s>"}
eos_token_id == 2
Vocab(piece) == CASE piece = "a" -> 0 [] piece = "b" -> 1 [] piece = "</s>" -> eos_token_id
TokenIds == {Vocab(p) : p \in Pieces}

\* Lines 74-80: tokenizer(prompt, truncation=True, max_length=cutoff_len,
\* padding=False): the ids of the first max_length pieces, and a mask of ones.
Tokenizer(text, max_length) ==
    LET n == Min(Len(text), max_length)
    IN  [input_ids |-> [i \in 1..n |-> Vocab(text[i])],
         attention_mask |-> [i \in 1..n |-> 1]]

\* Lines 81-85, for a non-empty list of ids.
ShouldAppendEos_le(ids, cutoff, add) ==
    Last(ids) # eos_token_id /\ Len(ids) <= cutoff /\ add
ShouldAppendEos(ids, cutoff, add) ==
    Last(ids) # eos_token_id /\ Len(ids) < cutoff /\ add

\* Addresses of the list objects of one call.
IdsAddr == 1
MaskAddr == 2
CopyAddr == 3

\* Line 89: result["input_ids"].copy() allocates a new list; the address that
\* result["labels"] refers to.
LabelsAddr_alias(ids_addr) == ids_addr
LabelsAddr(ids_addr) == CopyAddr

NoResult == [returned |-> FALSE, input_ids |-> 0, attention_mask |-> 0, labels |-> 0]

InitTokPart ==
    /\ tpc = "call"
    /\ prompt \in SeqsUpTo(Pieces, MaxPromptLen)
    /\ cutoff_len \in 1..MaxCutoff
    /\ add_eos_token \in BOOLEAN
    /\ heap = <<>>
    /\ result = NoResult
    /\ tok_out = <<>>
    /\ labels_at_return = <<>>

IdleTok ==
    /\ tpc = "idle"
    /\ prompt = <<>>
    /\ cutoff_len = 1
    /\ add_eos_token = TRUE
    /\ heap = <<>>
    /\ result = NoResult
    /\ tok_out = <<>>
    /\ labels_at_return = <<>>

\* Lines 73-91, the whole helper.
Tokenize ==
    /\ tpc = "call"
    /\ LET r == Tokenizer(prompt, cutoff_len)
           ids == r.input_ids
           mask == r.attention_mask
       IN  /\ tok_out' = ids
           /\ IF Len(ids) = 0
              THEN \* result["input_ids"][-1] raises IndexError
                   /\ tpc' = "raised"
                   /\ heap' = <<ids, mask>>
                   /\ UNCHANGED <<result, labels_at_return>>
              ELSE LET app == ShouldAppendEos(ids, cutoff_len, add_eos_token)
                       ids2 == IF app THEN Append(ids, eos_token_id) ELSE ids
                       mask2 == IF app THEN Append(mask, 1) ELSE mask
                       la == LabelsAddr(IdsAddr)
                       h == (la :> ids2) @@ <<ids2, mask2>>
                   IN  /\ heap' = h
                       /\ result' = [returned |-> TRUE, input_ids |-> IdsAddr,
                                     attention_mask |-> MaskAddr, labels |-> la]
                       /\ labels_at_return' = h[la]
                       /\ tpc' = "returned"
    /\ UNCHANGED <<prompt, cutoff_len, add_eos_token>>

\* The caller mutates one of the returned lists in place (list.append).
MutateInputIds ==
    /\ tpc = "returned"
    /\ \E x \in TokenIds :
          heap' = [heap EXCEPT ![result.input_ids] = Append(@, x)]
    /\ tpc' = "mutated_ids"
    /\ UNCHANGED <<prompt, cutoff_len, add_eos_token, result, tok_out, labels_at_return>>

MutateLabels ==
    /\ tpc = "returned"
    /\ \E x \in TokenIds :
          heap' = [heap EXCEPT ![result.labels] = Append(@, x)]
    /\ tpc' = "mutated_labels"
    /\ UNCHANGED <<prompt, cutoff_len, add_eos_token, result, tok_out, labels_at_return>>

NextTok ==
    \/ Tokenize /\ UNCHANGED <<varsTrain, varsPrep, varsLayers>>
    \/ MutateInputIds /\ UNCHANGED <<varsTrain, varsPrep, varsLayers>>
    \/ MutateLabels /\ UNCHANGED <<varsTrain, varsPrep, varsLayers>>

\* ==================================================================
\* Qwen2VLGPTQ.prepare_dataset  (gptqmodel/models/definitions/qwen2_vl.py)
\* ==================================================================
\* A content element of a conversation: its "type" value, the keys it
\* carries, and the source its image key (if any) names.
TextElem == [type |-> "text", keys |-> {"type", "text"}, src |-> ""]
ImageElem == [type |-> "image", keys |-> {"type", "image"}, src |-> "a.png"]
UrlElem == [type |-> "image_url", keys |-> {"type", "image_url"}, src |-> "http://b"]
KeylessElem == [type |-> "image", keys |-> {"type"}, src |-> ""]
BrokenElem == [type |-> "image", keys |-> {"type", "image"}, src |-> "missing.png"]

\* The content lists a calibration sample is drawn from.
Contents ==
    {<<TextElem>>, <<TextElem, ImageElem>>, <<UrlElem>>, <<ImageElem, UrlElem>>,
     <<KeylessElem>>, <<ImageElem, KeylessElem>>, <<BrokenElem>>}

\* A sample is a conversation: an id that stands for its text, and the content
\* elements of its messages.
Sample(i, c) == [id |-> i, content |-> c]

\* Lines 77-78.
preprocess_dataset(sample) == sample

\* utils.calibration.batched(dataset, n, process_func=self.preprocess_dataset):
\* consecutive chunks of n samples (the last one shorter), each sample passed
\* through process_func.
RECURSIVE Chunks(_, _)
Chunks(dataset, n) ==
    IF Len(dataset) = 0
    THEN <<>>
    ELSE LET k == Min(n, Len(dataset))
         IN  <<SubSeq(dataset, 1, k)>> \o Chunks(SubSeq(dataset, k + 1, Len(dataset)), n)
batched(dataset, n) ==
    LET c == Chunks(dataset, n)
    IN  [b \in 1..Len(c) |-> [i \in 1..Len(c[b]) |-> preprocess_dataset(c[b][i])]]

\* utils.image.extract_vision_info: the content elements, in order, that carry
\* an image or image_url key or are typed as one.
IsVisionElem(e) ==
    \/ "image" \in e.keys
    \/ "image_url" \in e.keys
    \/ e.type \in {"image", "image_url"}
RECURSIVE extract_vision_info(_)
extract_vision_info(conversations) ==
    IF Len(conversations) = 0
    THEN <<>>
    ELSE SelectSeq(Head(conversations).content, IsVisionElem)
         \o extract_vision_info(Tail(conversations))

\* utils.image.fetch_image: the image read from the source, or an error when
\* the source cannot be read.
FetchRaises(e) == e.src = "missing.png"
fetch_image(e) == [image_of |-> e.src]

\* Line 69.
HasImageKey_unchecked(e) == TRUE
HasImageKey(e) == "image" \in e.keys \/ "image_url" \in e.keys

ValueErrorMsg == "ValueError: image, image_url should in content."
FetchErrorMsg == "fetch_image raised"

\* Lines 67-72: the loop over vision_infos from entry k on, with the images
\* appended so far and the entries handed to fetch_image so far.
RECURSIVE ReadImages(_, _, _, _)
ReadImages(vision_infos, k, image_inputs, fetched) ==
    IF k > Len(vision_infos)
    THEN [raised |-> NoError, image_inputs |-> image_inputs, fetched |-> fetched]
    ELSE IF HasImageKey(vision_infos[k])
         THEN IF FetchRaises(vision_infos[k])
              THEN [raised |-> FetchErrorMsg, image_inputs |-> image_inputs,
                    fetched |-> Append(fetched, k)]
              ELSE ReadImages(vision_infos, k + 1,
                              Append(image_inputs, fetch_image(vision_infos[k])),
                              Append(fetched, k))
         ELSE [raised |-> ValueErrorMsg, image_inputs |-> image_inputs, fetched |-> fetched]

\* An Optional[list]: None, or a list.
None == [none |-> TRUE, items |-> <<>>]
List(l) == [none |-> FALSE, items |-> l]

\* Lines 73-74.
NoneIfEmpty_keep_empty(image_inputs) == List(image_inputs)
NoneIfEmpty(image_inputs) ==
    IF Len(image_inputs) = 0 THEN None ELSE List(image_inputs)

\* Lines 61-75: what the call raised, what it returned when it did not raise,
\* and the indices (into vision_infos) of the entries it fetched.
process_vision_info(conversations) ==
    LET r == ReadImages(extract_vision_info(conversations), 1, <<>>, <<>>)
    IN  [raised |-> r.raised,
         value |-> IF r.raised = NoError THEN NoneIfEmpty(r.image_inputs) ELSE None,
         fetched |-> r.fetched]

\* Lines 88-90: the chat-template text of a batch, one string per conversation.
apply_chat_template(batch) == [i \in 1..Len(batch) |-> <<"chat", batch[i].id, "assistant">>]

\* Lines 92-98.
processor(text, images, videos) ==
    [text |-> text, images |-> images, videos |-> videos, padding |-> TRUE,
     return_tensors |-> "pt"]

\* The batch the i-th iteration of the loop of line 87 works on.
BatchFor_text_of_first(bs, i) == bs[1]
BatchFor(bs, i) == bs[i]

NotReturned == [returned |-> FALSE, value |-> <<>>]

Datasets ==
    UNION {{[i \in 1..n |-> Sample(i, cs[i])] : cs \in [1..n -> Contents]} : n \in 0..MaxSamples}

InitPrepPart ==
    /\ ppc = "start"
    /\ calibration_dataset \in Datasets
    /\ batch_size \in 1..MaxBatch
    /\ batches = <<>>
    /\ bi = 1
    /\ calib_data = <<>>
    /\ perror = NoError
    /\ fetch_log = <<>>
    /\ prep_result = NotReturned

IdlePrep ==
    /\ ppc = "idle"
    /\ calibration_dataset = <<>>
    /\ batch_size = 1
    /\ batches = <<>>
    /\ bi = 1
    /\ calib_data = <<>>
    /\ perror = NoError
    /\ fetch_log = <<>>
    /\ prep_result = NotReturned

\* Lines 85-87: load the processor, start with an empty list, start batching.
PrepareStart ==
    /\ ppc = "start"
    /\ batches' = batched(calibration_dataset, batch_size)
    /\ calib_data' = <<>>
    /\ bi' = 1
    /\ ppc' = "loop"
    /\ UNCHANGED <<calibration_dataset, batch_size, perror, fetch_log, prep_result>>

\* Lines 87-99: one iteration of the loop.
PrepareBatch ==
    /\ ppc = "loop"
    /\ bi <= Len(batches)
    /\ LET text == apply_chat_template(BatchFor(batches, bi))
           image_inputs == process_vision_info(batches[bi])
       IN  /\ fetch_log' = image_inputs.fetched
           /\ IF image_inputs.raised # NoError
              THEN /\ perror' = image_inputs.raised
                   /\ ppc' = "raised"
                   /\ UNCHANGED <<calib_data, bi>>
              ELSE /\ calib_data' = Append(calib_data,
                                           processor(text, image_inputs.value, None))
                   /\ bi' = bi + 1
                   /\ UNCHANGED <<ppc, perror>>
    /\ UNCHANGED <<calibration_dataset, batch_size, batches, prep_result>>

\* Lines 100-101.
PrepareReturn ==
    /\ ppc = "loop"
    /\ bi > Len(batches)
    /\ prep_result' = [returned |-> TRUE, value |-> calib_data]
    /\ ppc' = "done"
    /\ UNCHANGED <<calibration_dataset, batch_size, batches, bi, calib_data, perror,
                   fetch_log>>

NextPrep ==
    \/ PrepareStart /\ UNCHANGED <<varsTrain, varsTok, varsLayers>>
    \/ PrepareBatch /\ UNCHANGED <<varsTrain, varsTok, varsLayers>>
    \/ PrepareReturn /\ UNCHANGED <<varsTrain, varsTok, varsLayers>>

\* ==================================================================
\* Qwen2VLGPTQ layer layout  (qwen2_vl.py, lines 12-26)
\* ==================================================================
\* Module paths are sequences of name components.
base_modules == <<<<"model", "embed_tokens">>, <<"model", "norm">>>>
layers_node == <<"model", "layers">>
layer_type == "Qwen2VLDecoderLayer"

layer_modules_o_proj_first ==
    << <<<<"self_attn", "o_proj">>>>,
       <<<<"self_attn", "k_proj">>, <<"self_attn", "v_proj">>, <<"self_attn", "q_proj">>>>,
       <<<<"mlp", "up_proj">>, <<"mlp", "gate_proj">>>>,
       <<<<"mlp", "down_proj">>>> >>
layer_modules ==
    << <<<<"self_attn", "k_proj">>, <<"self_attn", "v_proj">>, <<"self_attn", "q_proj">>>>,
       <<<<"self_attn", "o_proj">>>>,
       <<<<"mlp", "up_proj">>, <<"mlp", "gate_proj">>>>,
       <<<<"mlp", "down_proj">>>> >>

\* The full path of module m of decoder layer i.
ModulePath(i, m) == layers_node \o <<ToString(i)>> \o m

InitLayersPart ==
    /\ lpc = "walk"
    /\ num_layers \in 1..MaxLayers
    /\ li = 0
    /\ gi = 1
    /\ mi = 1
    /\ qlog = <<>>

IdleLayers ==
    /\ lpc = "idle"
    /\ num_layers = 1
    /\ li = 0
    /\ gi = 1
    /\ mi = 1
    /\ qlog = <<>>

\* The quantization loop of the base class: layer by layer, group by group in
\* the order of layer_modules, the modules of a group in the order listed.
QuantizeModule ==
    /\ lpc = "walk"
    /\ li < num_layers
    /\ gi <= Len(layer_modules)
    /\ mi <= Len(layer_modules[gi])
    /\ qlog' = Append(qlog, [layer |-> li, group |-> gi,
                             path |-> ModulePath(li, layer_modules[gi][mi])])
    /\ mi' = mi + 1
    /\ UNCHANGED <<lpc, num_layers, li, gi>>

NextGroup ==
    /\ lpc = "walk"
    /\ li < num_layers
    /\ gi <= Len(layer_modules)
    /\ mi > Len(layer_modules[gi])
    /\ gi' = gi + 1
    /\ mi' = 1
    /\ UNCHANGED <<lpc, num_layers, li, qlog>>

NextLayer ==
    /\ lpc = "walk"
    /\ li < num_layers
    /\ gi > Len(layer_modules)
    /\ li' = li + 1
    /\ gi' = 1
    /\ mi' = 1
    /\ UNCHANGED <<lpc, num_layers, qlog>>

FinishWalk ==
    /\ lpc = "walk"
    /\ li = num_layers
    /\ lpc' = "done"
    /\ UNCHANGED <<num_layers, li, gi, mi, qlog>>

NextLayers ==
    \/ QuantizeModule /\ UNCHANGED <<varsTrain, varsTok, varsPrep>>
    \/ NextGroup /\ UNCHANGED <<varsTrain, varsTok, varsPrep>>
    \/ NextLayer /\ UNCHANGED <<varsTrain, varsTok, varsPrep>>
    \/ FinishWalk /\ UNCHANGED <<varsTrain, varsTok, varsPrep>>

\* ==================================================================
\* Specifications
\* ==================================================================
InitTrain == InitTrainPart /\ IdleTok /\ IdlePrep /\ IdleLayers
InitTok == IdleTrain /\ InitTokPart /\ IdlePrep /\ IdleLayers
InitPrep == IdleTrain /\ IdleTok /\ InitPrepPart /\ IdleLayers
InitLayers == IdleTrain /\ IdleTok /\ IdlePrep /\ InitLayersPart

SpecTrain == InitTrain /\ [][NextTrain]_vars
SpecTok == InitTok /\ [][NextTok]_vars
SpecPrep == InitPrep /\ [][NextPrep]_vars
SpecLayers == InitLayers /\ [][NextLayers]_vars

\* ==================================================================
\* Properties of train()  (checked under SpecTrain)
\* ==================================================================
Called(name) == name \in Range(calls)

\* C2: trainer.train() is reached only when the device type was "xpu" at both
\* asserts; a failed check ends the run with AssertionError before the dataset
\* is loaded or the Trainer built, and save_pretrained is never called.
C2_TrainOnlyOnXpu ==
    /\ Called("trainer.train") => (dev_after_load = "xpu" /\ dev_after_peft = "xpu")
    /\ (dev_after_load \notin {NoDevice, "xpu"} \/ dev_after_peft \notin {NoDevice, "xpu"})
          => /\ pc = "raised"
             /\ error = "AssertionError"
             /\ ~Called("load_dataset")
             /\ ~Called("Trainer")
             /\ ~Called("trainer.train")
             /\ ~Called("save_pretrained")
    /\ dev_after_load \notin {NoDevice, "xpu"} => ~Called("get_peft_model")

C2_Witness ==
    /\ pc = "raised"
    /\ error = "AssertionError"
    /\ dev_after_load = "xpu"
    /\ dev_after_peft = "cuda"
    /\ world_size = 2
    /\ device_map_arg = "cuda"

ExpectedCalls ==
    (IF seed # NoSeed THEN <<"set_seed">> ELSE <<>>)
    \o <<"from_pretrained", "AutoTokenizer", "get_peft_model", "load_dataset", "Trainer",
         "trainer.train", "save_pretrained">>

\* C4: the library calls happen in one fixed order (set_seed first, and only
\* with a seed); a completed run made all of them; save_pretrained is called at
\* most once, directly after trainer.train returned, and never in a run that an
\* earlier step ended with an exception.
C4_FixedSequence ==
    /\ IsPrefix(calls, ExpectedCalls)
    /\ pc = "done" => calls = ExpectedCalls /\ error = NoError
    /\ Count(calls, "save_pretrained") <= 1
    /\ Called("save_pretrained")
          => /\ Last(calls) = "save_pretrained"
             /\ calls[Len(calls) - 1] = "trainer.train"
             /\ pc \in {"done", "raised"}
    /\ pc = "save" => (Last(calls) = "trainer.train" /\ error = NoError)
    /\ Called("set_seed") => seed # NoSeed
    /\ Called("from_pretrained") => (Called("set_seed") <=> seed # NoSeed)

C4_Witness == pc = "done" /\ seed # NoSeed /\ Called("save_pretrained")

\* C5: from_pretrained receives a quantization_config (the 4-bit GPTQConfig)
\* exactly when quantize is true; torch_dtype and device_map are the values of
\* line 61 whatever quantize is.
C5_QuantizedIffAsked ==
    Called("from_pretrained")
        => /\ ("quantization_config" \in DOMAIN model_kwargs) <=> quantize
           /\ quantize => model_kwargs.quantization_config = GPTQConfig4
           /\ {"torch_dtype", "device_map"} \subseteq DOMAIN model_kwargs
           /\ model_kwargs.torch_dtype = TorchAttr(torch_dtype)
           /\ model_kwargs.device_map = DevStr("xpu")

C5_Witness ==
    /\ Called("from_pretrained")
    /\ quantize
    /\ seed = "1234"
    /\ device_map_arg = "cuda"
    /\ model_kwargs.quantization_config.bits = 4

\* C6: the model is loaded with {"": process_index} when world_size > 1 and
\* the device_map argument is not "cpu", and with the caller's device_map
\* otherwise.
C6_DeviceMapUsed ==
    Called("from_pretrained")
        => model_kwargs.device_map =
              IF world_size > 1 /\ device_map_arg # "cpu"
              THEN DevDict(process_index)
              ELSE DevStr(device_map_arg)

\* ==================================================================
\* Properties of train.tokenize  (checked under SpecTok)
\* ==================================================================
Ones(n) == [i \in 1..n |-> 1]

\* C9: with add_eos_token, one EOS (mask value 1) is appended exactly when the
\* last id is not EOS and fewer than cutoff_len ids came back; so a result
\* shorter than cutoff_len ends in EOS, a sequence ending in EOS or of exactly
\* cutoff_len ids comes back unchanged; with no ids the helper raises.
C9_EosAppendedOnceWithRoom ==
    LET n == Len(tok_out)
    IN  /\ (tpc # "call" /\ n = 0) => (tpc = "raised" /\ ~result.returned)
        /\ (tpc # "call" /\ n >= 1) => result.returned
        /\ (tpc = "returned" /\ add_eos_token)
              => LET ids == heap[result.input_ids]
                     mask == heap[result.attention_mask]
                 IN  /\ IF Last(tok_out) # eos_token_id /\ n < cutoff_len
                        THEN ids = Append(tok_out, eos_token_id) /\ mask = Ones(n + 1)
                        ELSE ids = tok_out /\ mask = Ones(n)
                     /\ n < cutoff_len => Last(ids) = eos_token_id
                     /\ Last(tok_out) = eos_token_id => ids = tok_out
                     /\ n = cutoff_len => ids = tok_out
                     /\ Len(ids) <= n + 1

C9_Witness ==
    /\ tpc = "returned"
    /\ add_eos_token
    /\ Len(tok_out) = 2
    /\ heap[result.input_ids] = Append(tok_out, eos_token_id)

\* C10: a returned result has at most cutoff_len ids, a mask of the same
\* length, and labels equal to the ids but held in a list of its own: appending
\* to one of the two lists leaves the other as it was returned.
C10_LabelsAreACopy ==
    result.returned
        => LET ids == heap[result.input_ids]
               mask == heap[result.attention_mask]
               labels == heap[result.labels]
           IN  /\ tpc = "returned"
                     => /\ Len(ids) <= cutoff_len
                        /\ Len(mask) = Len(ids)
                        /\ labels = ids
                        /\ labels = labels_at_return
               /\ tpc = "mutated_ids"
                     => (labels = labels_at_return /\ Len(ids) = Len(labels) + 1)
               /\ tpc = "mutated_labels"
                     => (ids = labels_at_return /\ Len(labels) = Len(ids) + 1)

C10_Witness ==
    /\ tpc = "mutated_ids"
    /\ Len(heap[result.labels]) = cutoff_len
    /\ Len(heap[result.input_ids]) = cutoff_len + 1

\* ==================================================================
\* Properties of prepare_dataset  (checked under SpecPrep)
\* ==================================================================
\* The sources of the vision elements of samples lo..hi of the dataset.
RECURSIVE VisionSrcs(_, _)
VisionSrcs(lo, hi) ==
    IF lo > hi
    THEN <<>>
    ELSE LET c == SelectSeq(calibration_dataset[lo].content, IsVisionElem)
         IN  [k \in 1..Len(c) |-> c[k].src] \o VisionSrcs(lo + 1, hi)

\* C1: the returned list has one entry per batch, in order; entry i holds the
\* chat-template text of batch i and the images of that same batch.
C1_OneEntryPerBatch ==
    prep_result.returned
        => LET bs == batched(calibration_dataset, batch_size)
               n == Len(calibration_dataset)
               out == prep_result.value
           IN  /\ Len(out) = Len(bs)
               /\ Len(out) * batch_size >= n
               /\ n > 0 => (Len(out) - 1) * batch_size < n
               /\ \A i \in 1..Len(out) :
                     LET lo == (i - 1) * batch_size + 1
                         hi == Min(i * batch_size, n)
                         srcs == VisionSrcs(lo, hi)
                     IN  /\ out[i].text = apply_chat_template(bs[i])
                         /\ out[i].text = [j \in 1..(hi - lo + 1) |->
                                              <<"chat", lo + j - 1, "assistant">>]
                         /\ out[i].images.items = [k \in 1..Len(srcs) |-> [image_of |-> srcs[k]]]

C1_Witness ==
    /\ prep_result.returned
    /\ Len(prep_result.value) = 2
    /\ batch_size = 2
    /\ ~prep_result.value[1].images.none
    /\ ~prep_result.value[2].images.none

\* The batch the last call of process_vision_info worked on, if any.
CalledOnBatch == IF ppc = "raised" THEN bi ELSE bi - 1
Keyless(e) == "image" \notin e.keys /\ "image_url" \notin e.keys
FirstKeyless(v) == CHOOSE k \in 1..Len(v) : Keyless(v[k]) /\ \A j \in 1..(k - 1) : ~Keyless(v[j])

\* C7 as stated: a vision entry with neither key makes process_vision_info
\* raise the ValueError of line 72, nothing from that entry on is fetched, and
\* prepare_dataset returns no list.
C7_KeylessEntryRaisesValueError ==
    (ppc \in {"loop", "raised", "done"} /\ CalledOnBatch >= 1)
        => LET v == extract_vision_info(batches[CalledOnBatch])
           IN  (\E k \in 1..Len(v) : Keyless(v[k]))
                  => /\ ppc = "raised"
                     /\ perror = ValueErrorMsg
                     /\ \A f \in Range(fetch_log) : f < FirstKeyless(v)
                     /\ ~prep_result.returned
                     /\ Len(calib_data) = CalledOnBatch - 1

\* C7 as amended: the call raises: the ValueError of line 72 when every entry
\* before the keyless one was fetched, the exception of fetch_image when an
\* earlier entry could not be fetched; either way nothing from the keyless
\* entry on is fetched, no entry is appended for the batch, and
\* prepare_dataset returns no list.
C7_KeylessEntryRaises ==
    (ppc \in {"loop", "raised", "done"} /\ CalledOnBatch >= 1)
        => LET v == extract_vision_info(batches[CalledOnBatch])
           IN  (\E k \in 1..Len(v) : Keyless(v[k]))
                  => /\ ppc = "raised"
                     /\ perror \in {ValueErrorMsg, FetchErrorMsg}
                     /\ perror = ValueErrorMsg
                           => fetch_log = [j \in 1..(FirstKeyless(v) - 1) |-> j]
                     /\ perror = FetchErrorMsg
                           <=> \E j \in 1..(FirstKeyless(v) - 1) : FetchRaises(v[j])
                     /\ \A f \in Range(fetch_log) : f < FirstKeyless(v)
                     /\ ~prep_result.returned
                     /\ Len(calib_data) = CalledOnBatch - 1

C7_Witness ==
    /\ ppc = "raised"
    /\ perror = ValueErrorMsg
    /\ bi = 2
    /\ Len(calib_data) = 1
    /\ Len(fetch_log) = 1

\* C8: for a batch on which process_vision_info did not raise, images= is None
\* exactly when the batch has no vision entry, and otherwise the list of the
\* fetched images, one per entry and in the entries' order; videos= is None.
C8_ImagesNoneIffNoVisionEntry ==
    \A i \in 1..Len(calib_data) :
        LET v == extract_vision_info(batches[i])
            img == calib_data[i].images
        IN  /\ img.none <=> Len(v) = 0
            /\ ~img.none => Len(img.items) >= 1
            /\ Len(img.items) = Len(v)
            /\ \A k \in 1..Len(v) : img.items[k] = [image_of |-> v[k].src]
            /\ calib_data[i].videos = None
            /\ \A k \in 1..Len(v) : ~Keyless(v[k]) /\ ~FetchRaises(v[k])

C8_Witness ==
    /\ Len(calib_data) = 2
    /\ calib_data[1].images.none
    /\ Len(calib_data[2].images.items) = 2

\* ==================================================================
\* Properties of the layer layout  (checked under SpecLayers)
\* ==================================================================
Proj(parent, name) == <<parent, name>>
Group(g) == Range(layer_modules[g])
SevenProjections ==
    {Proj("self_attn", "k_proj"), Proj("self_attn", "v_proj"), Proj("self_attn", "q_proj"),
     Proj("self_attn", "o_proj"), Proj("mlp", "up_proj"), Proj("mlp", "gate_proj"),
     Proj("mlp", "down_proj")}
Suffix(path) == SubSeq(path, Len(layers_node) + 2, Len(path))

\* C3: layer_modules is four non-empty, pairwise disjoint groups that cover the
\* seven projections, in the order attention k/v/q, o_proj, mlp up/gate,
\* down_proj; the walk quantizes them in that order, every projection of every
\* layer once, and never a base module; no base module lies under layers_node.
C3_FourGroupsInOrder ==
    /\ layers_node = <<"model", "layers">>
    /\ layer_type = "Qwen2VLDecoderLayer"
    /\ Len(layer_modules) = 4
    /\ Group(1) = {Proj("self_attn", "k_proj"), Proj("self_attn", "v_proj"),
                   Proj("self_attn", "q_proj")}
    /\ Group(2) = {Proj("self_attn", "o_proj")}
    /\ Group(3) = {Proj("mlp", "up_proj"), Proj("mlp", "gate_proj")}
    /\ Group(4) = {Proj("mlp", "down_proj")}
    /\ \A g \in 1..Len(layer_modules) :
          /\ Group(g) # {}
          /\ Cardinality(Group(g)) = Len(layer_modules[g])
    /\ \A g, h \in 1..Len(layer_modules) : g # h => Group(g) \cap Group(h) = {}
    /\ \A m \in SevenProjections :
          Cardinality({g \in 1..Len(layer_modules) : m \in Group(g)}) = 1
    /\ \A b \in Range(base_modules) :
          /\ ~IsPrefix(layers_node, b)
          /\ \A g \in 1..Len(layer_modules) : b \notin Group(g)
    /\ \A j \in 1..Len(qlog) :
          /\ IsPrefix(layers_node, qlog[j].path)
          /\ qlog[j].path \notin Range(base_modules)
          /\ Suffix(qlog[j].path) \in Group(qlog[j].group)
          /\ \A k \in (j + 1)..Len(qlog) :
                /\ qlog[k].path # qlog[j].path
                /\ qlog[j].layer <= qlog[k].layer
                /\ qlog[j].layer = qlog[k].layer => qlog[j].group <= qlog[k].group
    /\ \A j \in 1..Len(qlog) :
          (Suffix(qlog[j].path) = Proj("self_attn", "o_proj"))
             => \A m \in {Proj("self_attn", "k_proj"), Proj("self_attn", "v_proj"),
                          Proj("self_attn", "q_proj")} :
                   \E k \in 1..(j - 1) : qlog[k].path = ModulePath(qlog[j].layer, m)
    /\ lpc = "done"
          => \A i \in 0..(num_layers - 1), m \in SevenProjections :
                Cardinality({j \in 1..Len(qlog) : qlog[j].path = ModulePath(i, m)}) = 1

C3_Witness == lpc = "done" /\ num_layers >= 2 /\ Len(qlog) = 7 * num_layers

====
